---- MODULE Spec2Model ----
(***************************************************************************)
(* Model of chech_link.py: the paginated pull-request query client, the    *)
(* link extractor, the media classifier, the bounded thread pool that      *)
(* classifies one page's links, and the CSV sink that is appended to once  *)
(* per page.                                                               *)
(*                                                                         *)
(* Python strings are modelled as sequences of one-character strings, so   *)
(* that strip, startswith, "in", split and the extraction regex are        *)
(* computed character by character as the code computes them.              *)
(***************************************************************************)
EXTENDS Bags, FiniteSets, Integers, Sequences, TLC

----------------------------------------------------------------------------
(* Bounds of the model.                                                    *)

\* Number of links in the body of the large batch (one more than the pool).
BigBatch == 21

\* Cap on the number of page requests of one run.
MaxRequests == 4

\* Cap on the number of units of one run that fail with a raised exception.
MaxFaults == 1

\* Number of pieces a body text of the extractor taken alone is made of, at most.
MaxPieces == 3

----------------------------------------------------------------------------
(* Program constants and string literals of the source.                    *)

MAX_THREADS == 20

\* "localhost"
s_localhost ==
    <<"l", "o", "c", "a", "l", "h", "o", "s", "t">>

\* "127.0.0.1"
s_loopback ==
    <<"1", "2", "7", ".", "0", ".", "0", ".", "1">>

\* "http://"
s_http ==
    <<"h", "t", "t", "p", ":", "/", "/">>

\* "https://"
s_https ==
    <<"h", "t", "t", "p", "s", ":", "/", "/">>

\* "https://github.com"
s_github_prefix ==
    <<"h", "t", "t", "p", "s", ":", "/", "/", "g", "i", "t", "h", "u", "b", ".", "c", "o", "m">>

\* "image"
s_image ==
    <<"i", "m", "a", "g", "e">>

\* "audio"
s_audio ==
    <<"a", "u", "d", "i", "o">>

\* "video"
s_video ==
    <<"v", "i", "d", "e", "o">>

\* "text"
s_text ==
    <<"t", "e", "x", "t">>

\* "html"
s_html ==
    <<"h", "t", "m", "l">>

\* "invalid"
s_invalid ==
    <<"i", "n", "v", "a", "l", "i", "d">>

\* "unknown"
s_unknown ==
    <<"u", "n", "k", "n", "o", "w", "n">>

----------------------------------------------------------------------------
(* Input data: content types a probe can declare, file extensions of the   *)
(* static extension table, link strings and pull-request bodies.          *)

\* "github.com"
s_github_host ==
    <<"g", "i", "t", "h", "u", "b", ".", "c", "o", "m">>

\* "image/png"
ct_image_png ==
    <<"i", "m", "a", "g", "e", "/", "p", "n", "g">>

\* "audio/mpeg"
ct_audio_mpeg ==
    <<"a", "u", "d", "i", "o", "/", "m", "p", "e", "g">>

\* "video/mp4"
ct_video_mp4 ==
    <<"v", "i", "d", "e", "o", "/", "m", "p", "4">>

\* "text/plain"
ct_text_plain ==
    <<"t", "e", "x", "t", "/", "p", "l", "a", "i", "n">>

\* "text/html; charset=utf-8"
ct_html_utf8 ==
    <<"t", "e", "x", "t", "/", "h", "t", "m", "l", ";", " ", "c", "h", "a", "r", "s", "e", "t",
    "=", "u", "t", "f", "-", "8">>

\* "application/xhtml+xml"
ct_xhtml ==
    <<"a", "p", "p", "l", "i", "c", "a", "t", "i", "o", "n", "/", "x", "h", "t", "m", "l", "+",
    "x", "m", "l">>

\* "application/pdf"
ct_pdf ==
    <<"a", "p", "p", "l", "i", "c", "a", "t", "i", "o", "n", "/", "p", "d", "f">>

\* "text/x-image-map"
ct_text_image ==
    <<"t", "e", "x", "t", "/", "x", "-", "i", "m", "a", "g", "e", "-", "m", "a", "p">>

\* "video/x-audio-only"
ct_video_audio ==
    <<"v", "i", "d", "e", "o", "/", "x", "-", "a", "u", "d", "i", "o", "-", "o", "n", "l", "y">>

\* "multipart/html-video"
ct_mixed_html ==
    <<"m", "u", "l", "t", "i", "p", "a", "r", "t", "/", "h", "t", "m", "l", "-", "v", "i", "d",
    "e", "o">>

\* "binary"
ct_bare ==
    <<"b", "i", "n", "a", "r", "y">>

\* "png"
e_png ==
    <<"p", "n", "g">>

\* "mp4"
e_mp4 ==
    <<"m", "p", "4">>

\* "mp3"
e_mp3 ==
    <<"m", "p", "3">>

\* "txt"
e_txt ==
    <<"t", "x", "t">>

\* "pdf"
e_pdf ==
    <<"p", "d", "f">>

\* "https://example.com/img.png"
u_img ==
    <<"h", "t", "t", "p", "s", ":", "/", "/", "e", "x", "a", "m", "p", "l", "e", ".", "c", "o",
    "m", "/", "i", "m", "g", ".", "p", "n", "g">>

\* "https://github.com/x/y"
u_gh ==
    <<"h", "t", "t", "p", "s", ":", "/", "/", "g", "i", "t", "h", "u", "b", ".", "c", "o", "m",
    "/", "x", "/", "y">>

\* "http://github.com/a"
u_http_gh ==
    <<"h", "t", "t", "p", ":", "/", "/", "g", "i", "t", "h", "u", "b", ".", "c", "o", "m", "/",
    "a">>

\* "https://github.com.evil.io/p"
u_gh_evil ==
    <<"h", "t", "t", "p", "s", ":", "/", "/", "g", "i", "t", "h", "u", "b", ".", "c", "o", "m",
    ".", "e", "v", "i", "l", ".", "i", "o", "/", "p">>

\* "http://a.io/x.png"
u_png ==
    <<"h", "t", "t", "p", ":", "/", "/", "a", ".", "i", "o", "/", "x", ".", "p", "n", "g">>

\* "http://a.io/x.png?v=1.zz"
u_png_query ==
    <<"h", "t", "t", "p", ":", "/", "/", "a", ".", "i", "o", "/", "x", ".", "p", "n", "g", "?",
    "v", "=", "1", ".", "z", "z">>

\* "http://a.io/B.PNG"
u_upper ==
    <<"h", "t", "t", "p", ":", "/", "/", "a", ".", "i", "o", "/", "B", ".", "P", "N", "G">>

\* "https://a.io/m.mp4"
u_mp4 ==
    <<"h", "t", "t", "p", "s", ":", "/", "/", "a", ".", "i", "o", "/", "m", ".", "m", "p", "4">>

\* "http://a.io/d.pdf"
u_pdf ==
    <<"h", "t", "t", "p", ":", "/", "/", "a", ".", "i", "o", "/", "d", ".", "p", "d", "f">>

\* "http://a.io/page"
u_noext ==
    <<"h", "t", "t", "p", ":", "/", "/", "a", ".", "i", "o", "/", "p", "a", "g", "e">>

\* "http://a.io/f.zz"
u_zz ==
    <<"h", "t", "t", "p", ":", "/", "/", "a", ".", "i", "o", "/", "f", ".", "z", "z">>

\* "http://a.io/v1.2/f"
u_dotdir ==
    <<"h", "t", "t", "p", ":", "/", "/", "a", ".", "i", "o", "/", "v", "1", ".", "2", "/", "f">>

\* "https://a.io"
u_nopath ==
    <<"h", "t", "t", "p", "s", ":", "/", "/", "a", ".", "i", "o">>

\* "http://localhost/"
u_local ==
    <<"h", "t", "t", "p", ":", "/", "/", "l", "o", "c", "a", "l", "h", "o", "s", "t", "/">>

\* "https://a.io/localhost.png"
u_local_png ==
    <<"h", "t", "t", "p", "s", ":", "/", "/", "a", ".", "i", "o", "/", "l", "o", "c", "a", "l",
    "h", "o", "s", "t", ".", "p", "n", "g">>

\* "http://127.0.0.1:8/x"
u_loop ==
    <<"h", "t", "t", "p", ":", "/", "/", "1", "2", "7", ".", "0", ".", "0", ".", "1", ":", "8",
    "/", "x">>

\* "ftp://a.io/x.png"
u_ftp ==
    <<"f", "t", "p", ":", "/", "/", "a", ".", "i", "o", "/", "x", ".", "p", "n", "g">>

\* " (http://a.io/x.png) "
u_wrapped ==
    <<" ", "(", "h", "t", "t", "p", ":", "/", "/", "a", ".", "i", "o", "/", "x", ".", "p", "n",
    "g", ")", " ">>

\* "( http://a.io/x.png )"
u_inner_space ==
    <<"(", " ", "h", "t", "t", "p", ":", "/", "/", "a", ".", "i", "o", "/", "x", ".", "p", "n",
    "g", " ", ")">>

\* "http://[a/x.png"
u_bracket ==
    <<"h", "t", "t", "p", ":", "/", "/", "[", "a", "/", "x", ".", "p", "n", "g">>

\* "https://evil.io@github.com/x"
u_userinfo ==
    <<"h", "t", "t", "p", "s", ":", "/", "/", "e", "v", "i", "l", ".", "i", "o", "@", "g", "i",
    "t", "h", "u", "b", ".", "c", "o", "m", "/", "x">>

\* "https://github.com:443/x"
u_port ==
    <<"h", "t", "t", "p", "s", ":", "/", "/", "g", "i", "t", "h", "u", "b", ".", "c", "o", "m",
    ":", "4", "4", "3", "/", "x">>

\* ""
u_empty ==
    <<>>

\* "Check this https://example.com/img.png and https://github.com/x/y"
b_e2e ==
    <<"C", "h", "e", "c", "k", " ", "t", "h", "i", "s", " ", "h", "t", "t", "p", "s", ":", "/",
    "/", "e", "x", "a", "m", "p", "l", "e", ".", "c", "o", "m", "/", "i", "m", "g", ".", "p",
    "n", "g", " ", "a", "n", "d", " ", "h", "t", "t", "p", "s", ":", "/", "/", "g", "i", "t",
    "h", "u", "b", ".", "c", "o", "m", "/", "x", "/", "y">>

\* "see (http://a.io/x.png) <https://github.com.evil.io/p>"
b_wrapped ==
    <<"s", "e", "e", " ", "(", "h", "t", "t", "p", ":", "/", "/", "a", ".", "i", "o", "/", "x",
    ".", "p", "n", "g", ")", " ", "<", "h", "t", "t", "p", "s", ":", "/", "/", "g", "i", "t",
    "h", "u", "b", ".", "c", "o", "m", ".", "e", "v", "i", "l", ".", "i", "o", "/", "p", ">">>

\* "no links, only http:// and https://)"
b_nolinks ==
    <<"n", "o", " ", "l", "i", "n", "k", "s", ",", " ", "o", "n", "l", "y", " ", "h", "t", "t",
    "p", ":", "/", "/", " ", "a", "n", "d", " ", "h", "t", "t", "p", "s", ":", "/", "/", ")">>

\* "http://github.com/a\n[l](http://localhost/) http://github.com/a"
b_mixed ==
    <<"h", "t", "t", "p", ":", "/", "/", "g", "i", "t", "h", "u", "b", ".", "c", "o", "m", "/",
    "a", "\n", "[", "l", "]", "(", "h", "t", "t", "p", ":", "/", "/", "l", "o", "c", "a", "l",
    "h", "o", "s", "t", "/", ")", " ", "h", "t", "t", "p", ":", "/", "/", "g", "i", "t", "h",
    "u", "b", ".", "c", "o", "m", "/", "a">>

\* "http://localhost/ "
b_local_unit ==
    <<"h", "t", "t", "p", ":", "/", "/", "l", "o", "c", "a", "l", "h", "o", "s", "t", "/", " ">>

----------------------------------------------------------------------------
(* Python string operations on character sequences.                        *)

\* None, for a value that is a string or absent (a body, a cursor, a guessed type).
None == <<"None">>

Min(S) == CHOOSE x \in S : \A y \in S : x <= y

Max(S) == CHOOSE x \in S : \A y \in S : x >= y

Range(s) == {s[i] : i \in 1..Len(s)}

\* F applied to the value of x, which is computed once.
With(x, F(_)) == CHOOSE r \in {F(v) : v \in {x}} : TRUE

\* The backquote character, which a TLA+ string cannot hold.
Backquote == "backquote"

\* The characters str.strip() removes and the regex class \s matches.
Whitespace == {" ", "\t", "\n"}

\* s[i:].startswith(p), positions counted from 1
MatchAt(s, i, p) == i + Len(p) - 1 <= Len(s) /\ SubSeq(s, i, i + Len(p) - 1) = p

\* s.startswith(p)
StartsWith(s, p) == MatchAt(s, 1, p)

\* p in s
Contains(s, p) == \E i \in 1..(Len(s) + 1) : MatchAt(s, i, p)

\* s.strip(chars): drop the leading and trailing characters that are in C
Strip(s, C) ==
    LET keep == {i \in 1..Len(s) : s[i] \notin C}
    IN  IF keep = {} THEN <<>> ELSE SubSeq(s, Min(keep), Max(keep))

\* The first position >= i of s holding a character of C, Len(s) + 1 if none.
FirstOf(s, i, C) ==
    LET hits == {j \in i..Len(s) : s[j] \in C}
    IN  IF hits = {} THEN Len(s) + 1 ELSE Min(hits)

\* s.split(c)[0]
SplitFirst(s, c) == SubSeq(s, 1, FirstOf(s, 1, {c}) - 1)

\* s.split(c)[-1]
SplitLast(s, c) ==
    LET hits == {j \in 1..Len(s) : s[j] = c}
    IN  IF hits = {} THEN s ELSE SubSeq(s, Max(hits) + 1, Len(s))

\* s.lower(), for the upper-case letters of the input data
LowerChar(c) ==
    CASE c = "B" -> "b" [] c = "G" -> "g" [] c = "N" -> "n" [] c = "P" -> "p" [] OTHER -> c

Lower(s) == [i \in 1..Len(s) |-> LowerChar(s[i])]

----------------------------------------------------------------------------
(* extract_visible_http_links: re.findall of https?:// followed by one or  *)
(* more characters that are neither whitespace nor a delimiter.            *)

\* A negated class that excludes whitespace alone.
LinkStop_whitespace_only == Whitespace

\* The characters the pattern's negated class excludes.
LinkStop == Whitespace \cup {"<", ">", "(", ")", "[", "]", Backquote}

\* Length of the match of https?:// at position i (0: no match).
SchemeLenAt(s, i) ==
    IF MatchAt(s, i, s_https) THEN Len(s_https)
    ELSE IF MatchAt(s, i, s_http) THEN Len(s_http)
    ELSE 0

\* The pattern matches at i: the scheme, then at least one character of the class.
LinkStartsAt(s, i) ==
    LET n == SchemeLenAt(s, i)
    IN  n > 0 /\ i + n <= Len(s) /\ s[i + n] \notin LinkStop

\* findall from position i on: leftmost match, taken greedily, then on after it.
RECURSIVE FindAllFrom(_, _)
FindAllFrom(s, i) ==
    LET starts == {j \in i..Len(s) : LinkStartsAt(s, j)}
    IN  IF starts = {} THEN <<>>
        ELSE With(Min(starts), LAMBDA b :
               With(FirstOf(s, b + SchemeLenAt(s, b), LinkStop) - 1, LAMBDA e :
                 <<SubSeq(s, b, e)>> \o FindAllFrom(s, e + 1)))

\* A test of the empty string alone, which lets None through.
falsy_empty_only(text) == text = <<>>

\* Python's truth test of a body: None and the empty string are false.
falsy(text) == text = None \/ text = <<>>

\* re.findall raises TypeError when it is given None in place of a string.
findall_raises(text) == text = None

\* extract_visible_http_links raises when its guard lets None reach re.findall.
extract_raises(markdown_text) == ~falsy(markdown_text) /\ findall_raises(markdown_text)

extract_visible_http_links(markdown_text) ==
    IF falsy(markdown_text) THEN <<>>
    ELSE FindAllFrom(markdown_text, 1)

----------------------------------------------------------------------------
(* get_media_type                                                          *)

\* url.strip().strip(delimiters)
StripDelims == {Backquote, "[", "]", "(", ")", "<", ">"}

sanitize(url) == With(Strip(url, Whitespace), LAMBDA stripped : Strip(stripped, StripDelims))

\* A check of the scheme alone, without the loopback tokens.
is_rejected_scheme_only(url) == ~(StartsWith(url, s_http) \/ StartsWith(url, s_https))

\* "localhost" in url or "127.0.0.1" in url or not re.match(r"^https?://", url)
is_rejected(url) ==
    \/ Contains(url, s_localhost)
    \/ Contains(url, s_loopback)
    \/ ~(StartsWith(url, s_http) \/ StartsWith(url, s_https))

\* What requests.head can do: answer with headers, or raise.
ExceptionKinds == {"Timeout", "ConnectionError", "InvalidURL", "Exception"}

Answer(headers) == [kind |-> "ok", headers |-> headers]

Raises(kind) == [kind |-> kind, headers |-> {}]

ContentType(ct) == {<<"Content-Type", ct>>}

\* headers.get(key, default); headers are a set of <<name, value>> pairs
HeadersGet(headers, key, default) ==
    IF \E h \in headers : h[1] = key
    THEN (CHOOSE h \in headers : h[1] = key)[2]
    ELSE default

\* The chain with the test for "text" or "html" placed first.
by_content_type_text_first(content_type) ==
    IF Contains(content_type, s_text) \/ Contains(content_type, s_html) THEN s_text
    ELSE IF Contains(content_type, s_image) THEN s_image
    ELSE IF Contains(content_type, s_audio) THEN s_audio
    ELSE IF Contains(content_type, s_video) THEN s_video
    ELSE SplitFirst(content_type, "/")

\* The if/elif chain on a non-empty content type.
by_content_type(content_type) ==
    IF Contains(content_type, s_image) THEN s_image
    ELSE IF Contains(content_type, s_audio) THEN s_audio
    ELSE IF Contains(content_type, s_video) THEN s_video
    ELSE IF Contains(content_type, s_text) \/ Contains(content_type, s_html) THEN s_text
    ELSE SplitFirst(content_type, "/")

\* mimetypes.types_map, the entries for the extensions of the input data
types_map ==
    (e_png :> ct_image_png) @@ (e_mp4 :> ct_video_mp4) @@ (e_mp3 :> ct_audio_mpeg)
    @@ (e_txt :> ct_text_plain) @@ (e_pdf :> ct_pdf)

\* mimetypes.guess_type("file." + ext)[0] for an ext that holds no "."; the
\* extension is what follows the last dot unless a "/" comes after that dot,
\* and it is looked up as written, then in lower case.
guess_type(ext) ==
    IF Contains(ext, <<"/">>) THEN None
    ELSE IF ext \in DOMAIN types_map THEN types_map[ext]
    ELSE IF Lower(ext) \in DOMAIN types_map THEN types_map[Lower(ext)]
    ELSE None

\* urlparse(url) of a url that starts with http:// or https://
NetlocStart(url) == IF StartsWith(url, s_https) THEN Len(s_https) + 1 ELSE Len(s_http) + 1

NetlocEnd(url) == FirstOf(url, NetlocStart(url), {"/", "?", "#"}) - 1

Netloc(url) == SubSeq(url, NetlocStart(url), NetlocEnd(url))

\* urlparse raises ValueError ("Invalid IPv6 URL") on an unbalanced bracket.
urlparse_raises(url) == ("[" \in Range(Netloc(url))) # ("]" \in Range(Netloc(url)))

UrlPath(url) == SubSeq(url, NetlocEnd(url) + 1, FirstOf(url, NetlocEnd(url) + 1, {"?", "#"}) - 1)

\* A handler without the extension-based guess.
extension_fallback_none(url) == s_unknown

\* The except Exception branch: the extension-based guess.
extension_fallback(url) ==
    IF urlparse_raises(url) THEN s_unknown
    ELSE With(UrlPath(url), LAMBDA path :
           With(SplitLast(path, "."), LAMBDA ext :
             With(guess_type(ext), LAMBDA guessed_type :
               IF guessed_type # None /\ guessed_type # <<>>
               THEN SplitFirst(guessed_type, "/")
               ELSE s_unknown)))

\* except requests.exceptions.InvalidURL
is_InvalidURL(kind) == kind = "InvalidURL"

\* A handler for timeouts only.
is_Timeout_only(kind) == kind = "Timeout"

\* except Exception
is_Exception(kind) == kind \in ExceptionKinds

Returned(value) == [raised |-> FALSE, value |-> value]

Propagated == [raised |-> TRUE, value |-> <<>>]

\* The try block and its handlers, for the outcome of requests.head(url).
after_probe(url, outcome) ==
    IF outcome.kind = "ok"
    THEN With(HeadersGet(outcome.headers, "Content-Type", <<>>), LAMBDA content_type :
           IF content_type # <<>>
           THEN Returned(by_content_type(content_type))
           ELSE Returned(s_unknown))
    ELSE IF is_InvalidURL(outcome.kind) THEN Returned(s_invalid)
    ELSE IF is_Exception(outcome.kind) THEN Returned(extension_fallback(url))
    ELSE Propagated

----------------------------------------------------------------------------
(* The remote API: the pages a repository serves, and its answers.         *)

Repo == "owner/repo"

PR(number, title, body) == [number |-> number, title |-> title, body |-> body]

Page(nodes, hasNextPage, endCursor) ==
    [nodes |-> nodes, pageInfo |-> [hasNextPage |-> hasNextPage, endCursor |-> endCursor]]

Cursor(k) == <<"c", "u", "r", k>>

RECURSIVE Repeat(_, _)
Repeat(s, n) == IF n = 0 THEN <<>> ELSE s \o Repeat(s, n - 1)

\* One page, one record: two links.
ServerOne == <<Page(<<PR(1, "t1", b_e2e)>>, FALSE, Cursor("1"))>>

\* Three pages; bodies that are absent, empty, without links; a repeated link.
ServerThree ==
    <<Page(<<PR(1, "t1", b_wrapped), PR(2, "t2", None)>>, TRUE, Cursor("1")),
      Page(<<PR(3, "t3", <<>>), PR(4, "t4", b_nolinks)>>, TRUE, Cursor("2")),
      Page(<<PR(5, "t5", b_mixed)>>, FALSE, Cursor("3"))>>

\* One page whose single record holds BigBatch links.
ServerBig == <<Page(<<PR(7, "t7", Repeat(b_local_unit, BigBatch))>>, FALSE, Cursor("1"))>>

Servers == {"one", "three", "big"}

Pages(srv) ==
    CASE srv = "one" -> ServerOne
      [] srv = "three" -> ServerThree
      [] srv = "big" -> ServerBig
      [] OTHER -> <<>>

\* What the API serves after the last page.
EmptyPage == Page(<<>>, FALSE, None)

\* The page that "after: cursor" selects.
PageAfter(pages, after) ==
    IF after = None
    THEN IF pages = <<>> THEN EmptyPage ELSE pages[1]
    ELSE LET at == {k \in 1..Len(pages) : pages[k].pageInfo.endCursor = after}
         IN  IF at # {} /\ Min(at) < Len(pages) THEN pages[Min(at) + 1] ELSE EmptyPage

\* The answers a request can get: the page, a bad HTTP status, or a payload
\* with an error list (which may still carry data).
Response(status, keys, data) == [status |-> status, keys |-> keys, data |-> data]

Responses(pages, after) ==
    {Response(200, {"data"}, PageAfter(pages, after)),
     Response(502, {}, EmptyPage),
     Response(200, {"data", "errors"}, PageAfter(pages, after))}

\* A run_graphql_query that checks neither the status nor the error list.
run_graphql_query_unchecked(response) == [raised |-> FALSE, data |-> response.data]

\* run_graphql_query on the response of requests.post
run_graphql_query(response) ==
    IF response.status >= 400 THEN [raised |-> TRUE, data |-> EmptyPage]
    ELSE IF "errors" \in response.keys THEN [raised |-> TRUE, data |-> EmptyPage]
    ELSE [raised |-> FALSE, data |-> response.data]

\* A generator that ignores hasNextPage and goes on asking.
next_has_next_page_always(pageInfo) == TRUE

\* has_next_page = pr_data["pageInfo"]["hasNextPage"]
next_has_next_page(pageInfo) == pageInfo.hasNextPage

\* A generator that never advances its cursor.
next_cursor_stale(pageInfo) == None

\* cursor = pr_data["pageInfo"]["endCursor"]
next_cursor(pageInfo) == pageInfo.endCursor

----------------------------------------------------------------------------
(* extract_pr_links: rows, the CSV store, the batch of one page.           *)

\* f"https://github.com/{repo}/pull/{pr_number}"
pr_link_of(repo, pr_number) == <<"https://github.com/", repo, "/pull/", pr_number>>

Task(pr_link, pr_title, link) == [pr_link |-> pr_link, pr_title |-> pr_title, link |-> link]

\* The inner loop over set(links): one task for each distinct link of the record.
TasksOfPR_unique(pr) ==
    LET pr_body == IF falsy(pr.body) THEN <<>> ELSE pr.body
        links == extract_visible_http_links(pr_body)
        keep == {i \in 1..Len(links) : \A j \in 1..(i - 1) : links[j] # links[i]}
        nth(n) == CHOOSE i \in keep : Cardinality({j \in keep : j < i}) = n - 1
    IN  [n \in 1..Cardinality(keep) |->
           Task(pr_link_of(Repo, pr.number), pr.title, links[nth(n)])]

\* pr["body"] or ""
pr_body_of(pr) == IF falsy(pr.body) THEN <<>> ELSE pr.body

\* The inner loop over one record: its links, tagged with their origin.
TasksOfPR(pr) ==
    With(pr_body_of(pr), LAMBDA pr_body :
      With(extract_visible_http_links(pr_body), LAMBDA links :
        [i \in 1..Len(links) |-> Task(pr_link_of(Repo, pr.number), pr.title, links[i])]))

\* links_to_check of a page
RECURSIVE TasksOfPage(_)
TasksOfPage(pr_page) ==
    IF pr_page = <<>> THEN <<>>
    ELSE TasksOfPR(Head(pr_page)) \o TasksOfPage(Tail(pr_page))

\* link == "https://github.com"
is_github_exact(link) == link = s_github_prefix

\* link.startswith("https://github.com")
is_github(link) == StartsWith(link, s_github_prefix)

\* future.result() without the try/except around it.
future_result_unhandled(result) == result

\* future.result() under try/except Exception: a raised unit yields "unknown"
future_result(result) == IF result.raised THEN Returned(s_unknown) ELSE result

Row(task, media_type) ==
    [repo |-> Repo, pr_link |-> task.pr_link, pr_title |-> task.pr_title,
     link |-> task.link, media_type |-> media_type, isGithub |-> is_github(task.link)]

\* Lines of the CSV file: the header line and one line per row.
csv_header ==
    [header |-> TRUE, repo |-> "repo", pr_link |-> <<"pr_link", "", "", 0>>,
     pr_title |-> "pr_title", link |-> <<"link">>, media_type |-> <<"media_type">>,
     isGithub |-> FALSE]

csv_line(row) ==
    [header |-> FALSE, repo |-> row.repo, pr_link |-> row.pr_link, pr_title |-> row.pr_title,
     link |-> row.link, media_type |-> row.media_type, isGithub |-> row.isGithub]

csv_lines(rows) == [i \in 1..Len(rows) |-> csv_line(rows[i])]

\* pd.DataFrame(columns=[...]).to_csv(csv_file, index=False): create with the header
create_store == [exists |-> TRUE, lines |-> <<csv_header>>]

\* to_csv in mode "w": the file is rewritten with the rows of the page.
append_rows_overwrite(st, rows) == [exists |-> TRUE, lines |-> csv_lines(rows)]

\* to_csv in mode "a" with its default header=True.
append_rows_with_header(st, rows) ==
    [exists |-> TRUE, lines |-> st.lines \o <<csv_header>> \o csv_lines(rows)]

\* The rows of the page are written before what the file holds.
append_rows_prepend(st, rows) == [exists |-> TRUE, lines |-> csv_lines(rows) \o st.lines]

\* to_csv of a frame built from the last result alone.
append_rows_last_only(st, rows) ==
    [exists |-> TRUE, lines |-> st.lines \o csv_lines(<<rows[Len(rows)]>>)]

\* The rows are kept in memory (all_results) and not written per page.
append_rows_deferred(st, rows) == st

\* df.to_csv(csv_file, mode="a", header=False, index=False)
append_rows(st, rows) == [exists |-> TRUE, lines |-> st.lines \o csv_lines(rows)]

\* The stores a run can find: no file, an empty file, or the file of an earlier run.
OldRow == Row(Task(pr_link_of(Repo, 9), "t9", u_pdf), s_text)

InitialStores ==
    {[exists |-> FALSE, lines |-> <<>>],
     [exists |-> TRUE, lines |-> <<>>],
     [exists |-> TRUE, lines |-> <<csv_header, csv_line(OldRow)>>]}

\* An executor with one worker per link of the batch.
max_workers_per_link == BigBatch

\* ThreadPoolExecutor(max_workers=MAX_THREADS)
max_workers == MAX_THREADS

\* Outcomes of the probe in a run, and in the classifier taken alone.
RunOutcomes ==
    {Answer(ContentType(ct_image_png)), Answer({}), Raises("Timeout"), Raises("InvalidURL")}

Outcomes ==
    {Answer(ContentType(ct)) : ct \in {ct_image_png, ct_audio_mpeg, ct_video_mp4, ct_text_plain,
                                       ct_html_utf8, ct_xhtml, ct_pdf, ct_text_image,
                                       ct_video_audio, ct_mixed_html, ct_bare, <<>>}}
    \cup {Answer({})} \cup {Raises(k) : k \in ExceptionKinds}

\* Input strings of the classifier taken alone.
TestLinks ==
    {u_img, u_gh, u_http_gh, u_gh_evil, u_png, u_png_query, u_upper, u_mp4, u_pdf, u_noext,
     u_zz, u_dotdir, u_nopath, u_local, u_local_png, u_loop, u_ftp, u_wrapped, u_inner_space,
     u_bracket, u_userinfo, u_port, u_empty}

----------------------------------------------------------------------------
(* State.                                                                  *)

VARIABLES
    server,           \* which repository the run queries: its pages are Pages(server)
    store,            \* the CSV file: [exists, lines]
    pc,               \* position of the main thread in extract_pr_links
    gen,              \* the generator: "created", "suspended" at its yield, "finished"
    cursor,           \* generator local
    has_next_page,    \* generator local
    pr_data,          \* generator local: pageInfo of the page it last yielded
    pr_page,          \* the page the for loop is processing
    links_to_check,   \* tasks of the page, in extraction order
    submitted,        \* how many of them executor.submit has taken
    queue,            \* the executor's work queue
    running,          \* bag of get_media_type calls in flight
    done,             \* bag of finished futures not yet yielded by as_completed
    page_results,     \* rows of the page
    total_processed,
    requests,         \* history: the cursor of each request, in order
    responses,        \* history: status, keys and pageInfo of each response
    yielded,          \* history: the pages the generator yielded, as record numbers
    faults,           \* history: how many units failed with a raised exception
    probes,           \* history: bag of the urls requests.head was called with
    flushed,          \* history: page_results at the end of each page's iteration
    store0,           \* history: the store the run found
    calls,            \* history: bag of the tasks get_media_type was called for
    appends           \* history: the rows of each to_csv append, in order

vars ==
    <<server, store, pc, gen, cursor, has_next_page, pr_data, pr_page, links_to_check, submitted,
      queue, running, done, page_results, total_processed, requests, responses, yielded,
      probes, flushed, store0, faults, calls, appends>>

gen_vars == <<gen, cursor, has_next_page, pr_data>>

pool_vars == <<links_to_check, submitted, queue, running, done>>

hist_vars == <<requests, responses, yielded, probes, flushed, store0, faults, calls, appends>>

NoPageInfo == [hasNextPage |-> TRUE, endCursor |-> None]

Init ==
    /\ server \in Servers
    /\ store0 \in InitialStores
    /\ store = store0
    /\ pc = "start"
    /\ gen = "created"
    /\ cursor = None
    /\ has_next_page = TRUE
    /\ pr_data = NoPageInfo
    /\ pr_page = <<>>
    /\ links_to_check = <<>>
    /\ submitted = 0
    /\ queue = <<>>
    /\ running = EmptyBag
    /\ done = EmptyBag
    /\ page_results = <<>>
    /\ total_processed = 0
    /\ requests = <<>>
    /\ responses = <<>>
    /\ yielded = <<>>
    /\ probes = EmptyBag
    /\ flushed = <<>>
    /\ faults = 0
    /\ calls = EmptyBag
    /\ appends = <<>>

----------------------------------------------------------------------------
(* The main thread.                                                        *)

\* Lines 112-123: create the file with its header unless it exists.
Setup ==
    /\ pc = "start"
    /\ store' = IF ~store.exists THEN create_store ELSE store
    /\ pc' = "next"
    /\ UNCHANGED <<server, gen_vars, pr_page, pool_vars, page_results, total_processed,
                   hist_vars>>

Seen(response) ==
    [status |-> response.status, keys |-> response.keys, pageInfo |-> response.data.pageInfo]

Numbers(nodes) == [i \in 1..Len(nodes) |-> nodes[i].number]

\* The for loop asks the generator for its next page. The generator runs from
\* where it stands (its start, or the statements after its yield) to its next
\* yield, to its end, or to the exception of run_graphql_query.
NextPage ==
    /\ pc = "next"
    /\ gen \in {"created", "suspended"}
    /\ LET hnp == IF gen = "suspended" THEN next_has_next_page(pr_data) ELSE has_next_page
           cur == IF gen = "suspended" THEN next_cursor(pr_data) ELSE cursor
       IN  /\ has_next_page' = hnp
           /\ cursor' = cur
           /\ IF ~hnp
              THEN \* the while loop ends: StopIteration, the for loop ends, line 169
                   /\ gen' = "finished"
                   /\ pc' = "done"
                   /\ UNCHANGED <<pr_data, pr_page, requests, responses, yielded>>
              ELSE /\ Len(requests) < MaxRequests
                   /\ \E response \in Responses(Pages(server), cur) :
                        LET got == run_graphql_query(response)
                        IN  /\ requests' = Append(requests, cur)
                            /\ responses' = Append(responses, Seen(response))
                            /\ IF got.raised
                               THEN \* the exception leaves the generator and the loop
                                    /\ gen' = "finished"
                                    /\ pc' = "failed"
                                    /\ UNCHANGED <<pr_data, pr_page, yielded>>
                               ELSE /\ gen' = "suspended"
                                    /\ pr_data' = got.data.pageInfo
                                    /\ pr_page' = got.data.nodes
                                    /\ yielded' = Append(yielded, Numbers(got.data.nodes))
                                    /\ pc' = "extract"
    /\ UNCHANGED <<server, store, pool_vars, page_results, total_processed, probes, flushed,
                   store0, faults, calls, appends>>

\* Lines 126-140: the page's links are gathered and the executor is created.
\* An exception of the extraction leaves extract_pr_links.
Extract ==
    /\ pc = "extract"
    /\ page_results' = <<>>
    /\ IF \E j \in 1..Len(pr_page) : extract_raises(pr_body_of(pr_page[j]))
       THEN /\ pc' = "failed"
            /\ UNCHANGED <<links_to_check, submitted>>
       ELSE /\ links_to_check' = TasksOfPage(pr_page)
            /\ submitted' = 0
            /\ pc' = "pool"
    /\ UNCHANGED <<server, store, gen_vars, pr_page, queue, running, done, total_processed,
                   hist_vars>>

\* Lines 141-144: executor.submit of the next link.
Submit ==
    /\ pc = "pool"
    /\ submitted < Len(links_to_check)
    /\ queue' = Append(queue, links_to_check[submitted + 1])
    /\ submitted' = submitted + 1
    /\ UNCHANGED <<server, store, pc, gen_vars, pr_page, links_to_check, running, done,
                   page_results, total_processed, hist_vars>>

\* Lines 146-161: as_completed yields a finished future, its row is appended.
Collect ==
    /\ pc = "pool"
    /\ submitted = Len(links_to_check)
    /\ \E f \in BagToSet(done) :
         LET media_type == future_result(f.result)
         IN  /\ done' = done (-) SetToBag({f})
             /\ IF media_type.raised
                THEN \* nothing catches it: it leaves extract_pr_links
                     /\ pc' = "failed"
                     /\ UNCHANGED page_results
                ELSE /\ page_results' = Append(page_results, Row(f.task, media_type.value))
                     /\ UNCHANGED pc
    /\ UNCHANGED <<server, store, gen_vars, pr_page, links_to_check, submitted, queue, running,
                   total_processed, hist_vars>>

\* An executor left without waiting: every link is submitted, no result awaited.
batch_finished_no_wait == submitted = Len(links_to_check)

\* The as_completed loop has yielded every future and the with block has ended.
batch_finished ==
    /\ submitted = Len(links_to_check)
    /\ Len(page_results) = Len(links_to_check)

\* Lines 163-167, after as_completed is exhausted and the executor has shut down.
FlushPage ==
    /\ pc = "pool"
    /\ batch_finished
    /\ IF page_results # <<>>
       THEN /\ store' = append_rows(store, page_results)
            /\ appends' = Append(appends, page_results)
            /\ total_processed' = total_processed + Len(page_results)
       ELSE UNCHANGED <<store, appends, total_processed>>
    /\ flushed' = Append(flushed, page_results)
    /\ pc' = "next"
    /\ UNCHANGED <<server, gen_vars, pr_page, pool_vars, page_results, requests, responses,
                   yielded, probes, store0, faults, calls>>

\* The process is killed: what it held in memory is gone, the file stays.
Crash ==
    /\ pc \notin {"done", "failed", "crashed"}
    /\ pc' = "crashed"
    /\ gen' = "finished"
    /\ pr_page' = <<>>
    /\ links_to_check' = <<>>
    /\ submitted' = 0
    /\ queue' = <<>>
    /\ running' = EmptyBag
    /\ done' = EmptyBag
    /\ page_results' = <<>>
    /\ UNCHANGED <<server, store, cursor, has_next_page, pr_data, total_processed, hist_vars>>

----------------------------------------------------------------------------
(* The workers of the pool, each running get_media_type on one link.       *)

Call(task, phase, url) == [task |-> task, phase |-> phase, url |-> url]

\* A finished future: what the call returned or raised, with the url it probed
\* and the outcome of that probe.
Future(task, url, outcome, result, probed, fault) ==
    [task |-> task, url |-> url, outcome |-> outcome, result |-> result, probed |-> probed,
     fault |-> fault]

NoProbe == [kind |-> "none", headers |-> {}]

\* A free worker takes the oldest queued link and calls get_media_type.
WorkerStart ==
    /\ queue # <<>>
    /\ BagCardinality(running) < max_workers
    /\ running' = running (+) SetToBag({Call(Head(queue), "called", Head(queue).link)})
    /\ queue' = Tail(queue)
    /\ calls' = calls (+) SetToBag({Head(queue)})
    /\ UNCHANGED <<server, store, pc, gen_vars, pr_page, links_to_check, submitted, done,
                   page_results, total_processed, requests, responses, yielded, probes,
                   flushed, store0, faults, appends>>

\* Lines 75-82: sanitise, reject with "invalid", or issue the probe.
WorkerSanitize ==
    \E c \in BagToSet(running) :
      /\ c.phase = "called"
      /\ \E url \in {sanitize(c.url)} :
             IF is_rejected(url)
             THEN /\ running' = running (-) SetToBag({c})
                  /\ done' = done (+) SetToBag({Future(c.task, url, NoProbe, Returned(s_invalid),
                                                            FALSE, FALSE)})
                  /\ UNCHANGED probes
             ELSE /\ running' = (running (-) SetToBag({c}))
                                  (+) SetToBag({Call(c.task, "probing", url)})
                  /\ probes' = probes (+) SetToBag({url})
                  /\ UNCHANGED done
      /\ UNCHANGED <<server, store, pc, gen_vars, pr_page, links_to_check, submitted, queue,
                     page_results, total_processed, requests, responses, yielded, flushed,
                     store0, faults, calls, appends>>

\* Lines 82-109: requests.head answers or raises, get_media_type ends.
ProbeReturn(outs) ==
    \E c \in BagToSet(running) :
      /\ c.phase = "probing"
      /\ \E outcome \in outs :
           /\ running' = running (-) SetToBag({c})
           /\ done' = done (+) SetToBag({Future(c.task, c.url, outcome,
                                                 after_probe(c.url, outcome), TRUE, FALSE)})
      /\ UNCHANGED <<server, store, pc, gen_vars, pr_page, links_to_check, submitted, queue,
                     page_results, total_processed, hist_vars>>

\* A unit fails while it probes with an exception that get_media_type does not
\* handle (one raised while its handlers run, such as MemoryError): its future
\* holds the exception.
UnitFault ==
    /\ faults < MaxFaults
    /\ \E c \in BagToSet(running) :
         /\ c.phase = "probing"
         /\ running' = running (-) SetToBag({c})
         /\ done' = done (+) SetToBag({Future(c.task, c.url, NoProbe, Propagated, TRUE, TRUE)})
    /\ faults' = faults + 1
    /\ UNCHANGED <<server, store, pc, gen_vars, pr_page, links_to_check, submitted, queue,
                   page_results, total_processed, requests, responses, yielded, probes,
                   flushed, store0, calls, appends>>

----------------------------------------------------------------------------
(* Specifications.                                                         *)

Next ==
    \/ Setup
    \/ NextPage
    \/ Extract
    \/ Submit
    \/ Collect
    \/ FlushPage
    \/ Crash
    \/ WorkerStart
    \/ WorkerSanitize
    \/ ProbeReturn(RunOutcomes)
    \/ UnitFault

Spec == Init /\ [][Next]_vars

\* get_media_type taken alone: one call on any of the input strings, with
\* every outcome of the probe.
MediaInit ==
    /\ server = "none"
    /\ store0 \in {[exists |-> FALSE, lines |-> <<>>]}
    /\ store = create_store
    /\ pc = "pool"
    /\ gen = "suspended"
    /\ cursor = None
    /\ has_next_page = TRUE
    /\ pr_data = NoPageInfo
    /\ pr_page = <<>>
    /\ \E link \in TestLinks :
         /\ links_to_check = <<Task(pr_link_of(Repo, 1), "t1", link)>>
         /\ queue = links_to_check
    /\ submitted = 1
    /\ running = EmptyBag
    /\ done = EmptyBag
    /\ page_results = <<>>
    /\ total_processed = 0
    /\ requests = <<>>
    /\ responses = <<>>
    /\ yielded = <<>>
    /\ probes = EmptyBag
    /\ flushed = <<>>
    /\ faults = 0
    /\ calls = EmptyBag
    /\ appends = <<>>

MediaNext ==
    \/ WorkerStart
    \/ WorkerSanitize
    \/ ProbeReturn(Outcomes)

MediaSpec == MediaInit /\ [][MediaNext]_vars

\* The link extractor taken alone: one page of one record whose body is absent
\* or any text made of a few pieces (urls, bare and cut schemes, letters,
\* whitespace and delimiters).
Pieces ==
    {s_http, s_https, u_http_gh, u_mp4, <<"h", "t", "t", "p", ":", "/">>, <<"x">>, <<"s">>,
     <<" ">>, <<"\n">>, <<"(">>, <<")">>, <<"[">>, <<"]">>, <<"<">>, <<">">>, <<Backquote>>}

RECURSIVE TextsOf(_)
TextsOf(n) ==
    IF n = 0 THEN {<<>>}
    ELSE LET shorter == TextsOf(n - 1)
         IN  shorter \cup {t \o p : t \in shorter, p \in Pieces}

Texts == TextsOf(MaxPieces)

ExtractInit ==
    /\ server = "none"
    /\ store0 \in {[exists |-> FALSE, lines |-> <<>>]}
    /\ store = create_store
    /\ pc = "extract"
    /\ gen = "suspended"
    /\ cursor = None
    /\ has_next_page = TRUE
    /\ pr_data = NoPageInfo
    /\ pr_page \in {<<PR(1, "t1", body)>> : body \in Texts \cup {None}}
    /\ links_to_check = <<>>
    /\ submitted = 0
    /\ queue = <<>>
    /\ running = EmptyBag
    /\ done = EmptyBag
    /\ page_results = <<>>
    /\ total_processed = 0
    /\ requests = <<>>
    /\ responses = <<>>
    /\ yielded = <<>>
    /\ probes = EmptyBag
    /\ flushed = <<>>
    /\ faults = 0
    /\ calls = EmptyBag
    /\ appends = <<>>

ExtractNext == Extract

ExtractSpec == ExtractInit /\ [][ExtractNext]_vars

\* The end-to-end scenario: the repository of one record, every probe answered
\* with Content-Type image/png, no unit fault and no kill.
E2EInit == Init /\ server = "one"

E2ENext ==
    \/ Setup
    \/ NextPage
    \/ Extract
    \/ Submit
    \/ Collect
    \/ FlushPage
    \/ WorkerStart
    \/ WorkerSanitize
    \/ ProbeReturn({Answer(ContentType(ct_image_png))})

E2ESpec == E2EInit /\ [][E2ENext]_vars

\* A run that is not killed, against a server that answers every request with
\* the page asked for. The main thread goes on whenever it can, and so do the
\* workers: a call that probes gets its answer or its exception (a Timeout
\* after 5 seconds at the latest).
NextPageServed == NextPage /\ pc' # "failed"

MainThread ==
    \/ Setup
    \/ NextPageServed
    \/ Extract
    \/ Submit
    \/ Collect
    \/ FlushPage

Workers ==
    \/ WorkerStart
    \/ WorkerSanitize
    \/ ProbeReturn(RunOutcomes)
    \/ UnitFault

LiveNext ==
    \/ Setup
    \/ NextPageServed
    \/ Extract
    \/ Submit
    \/ Collect
    \/ FlushPage
    \/ WorkerStart
    \/ WorkerSanitize
    \/ ProbeReturn(RunOutcomes)
    \/ UnitFault

LiveSpec == Init /\ [][LiveNext]_vars /\ WF_vars(MainThread) /\ WF_vars(Workers)
----------------------------------------------------------------------------
(* Notions the properties are stated with.                                 *)

\* The bag of the elements of a sequence.
BagOf(seq) == [x \in Range(seq) |-> Cardinality({i \in DOMAIN seq : seq[i] = x})]

RowTask(row) == Task(row.pr_link, row.pr_title, row.link)

RowTasks(rows) == [i \in 1..Len(rows) |-> RowTask(rows[i])]

RECURSIVE Flatten(_)
Flatten(batches) == IF batches = <<>> THEN <<>> ELSE Head(batches) \o Flatten(Tail(batches))

\* The lines of the store once the run has set it up, before any page.
BaseLines == IF store0.exists THEN store0.lines ELSE <<csv_header>>

\* The store holds what the run found, then the rows of the finished pages.
StoreHoldsFlushed == store.lines = BaseLines \o csv_lines(Flatten(flushed))

\* The batch recorded for page k has one row for each link of page k of the server.
BatchComplete(k) == BagOf(RowTasks(flushed[k])) = BagOf(TasksOfPage(Pages(server)[k].nodes))

IsFailure(r) == r.status >= 400 \/ "errors" \in r.keys

\* The last request was answered with a bad status or an error list.
QueryFailed == responses # <<>> /\ IsFailure(responses[Len(responses)])

PoolIdle == queue = <<>> /\ running = EmptyBag /\ done = EmptyBag

\* urlparse(link).hostname of a link that starts with http:// or https://
Hostname(link) ==
    LET netloc == Netloc(link)
        hostport == SplitLast(netloc, "@")
    IN  Lower(SplitFirst(hostport, ":"))

\* The extension of a url's path: what follows the last dot of its last segment.
PathExtension(url) ==
    LET segment == SplitLast(UrlPath(url), "/")
    IN  IF "." \in Range(segment) THEN Lower(SplitLast(segment, ".")) ELSE <<>>

HasKnownExtension(url) == PathExtension(url) \in DOMAIN types_map

\* The primary type token the extension table gives for the url.
TableToken(url) == SplitFirst(types_map[PathExtension(url)], "/")

ProbeFailed(f) == f.outcome.kind \in ExceptionKinds

----------------------------------------------------------------------------
(* Properties.                                                             *)

\* C1: against a server of N pages of which only the last reports
\* hasNextPage = false, the first request carries no cursor, request k+1
\* carries the endCursor of response k, no request follows a response that
\* reports hasNextPage = false, the pages are yielded in server order, and a
\* run that ends normally has issued exactly N requests and yielded N pages.
PaginationChain ==
    /\ \A k \in 1..Len(requests) :
         requests[k] = IF k = 1 THEN None ELSE responses[k - 1].pageInfo.endCursor
    /\ \A k \in 1..(Len(requests) - 1) :
         ~IsFailure(responses[k]) /\ responses[k].pageInfo.hasNextPage
    /\ Len(yielded) <= Len(Pages(server))
    /\ \A k \in 1..Len(yielded) : yielded[k] = Numbers(Pages(server)[k].nodes)
    /\ pc = "done" =>
         /\ Len(requests) = Len(Pages(server))
         /\ Len(yielded) = Len(Pages(server))
         /\ ~responses[Len(responses)].pageInfo.hasNextPage

PaginationChainWitness ==
    /\ pc = "done"
    /\ server = "three"
    /\ requests = <<None, Cursor("1"), Cursor("2")>>
    /\ Len(yielded) = 3

\* C2: a page request is issued only when every page fetched before has been
\* classified link by link and its rows are in the store, and at every moment
\* at most one fetched page has not reached its flush.
FetchAfterFlush ==
    [][/\ Len(requests') > Len(requests) =>
            /\ PoolIdle
            /\ Len(flushed) = Len(yielded)
            /\ BagOf(RowTasks(page_results)) = BagOf(links_to_check)
            /\ StoreHoldsFlushed
            /\ \A k \in 1..Len(flushed) : BatchComplete(k)
       /\ Len(yielded') - Len(flushed') \in {0, 1}]_vars

FetchAfterFlushWitness ==
    /\ pc = "extract"
    /\ Len(requests) = 2
    /\ Len(flushed) = 1
    /\ Len(flushed[1]) = 2
    /\ Len(store.lines) = Len(BaseLines) + 2

\* C3: never more than MAX_THREADS get_media_type calls are in flight, and a
\* submitted link that no worker has taken waits in the queue: while the pool
\* is open every submitted link is queued, in flight, finished or in a row.
InFlightBound ==
    /\ BagCardinality(running) <= MAX_THREADS
    /\ pc = "pool" =>
         submitted = Len(queue) + BagCardinality(running) + BagCardinality(done)
                       + Len(page_results)

InFlightBoundWitness ==
    /\ BagCardinality(running) = MAX_THREADS
    /\ queue # <<>>
    /\ submitted = BigBatch

\* C4: when a page request is answered with a bad status or an error list the
\* run is over: the exception leaves extract_pr_links, the answer yields no
\* page, no unit is pending, and no step follows (no request, no probe, no
\* row, no write).
AbortOnQueryFailure ==
    [][/\ QueryFailed' =>
            /\ pc' = "failed"
            /\ yielded' = yielded
            /\ PoolIdle'
       /\ QueryFailed =>
            UNCHANGED <<requests, probes, store, page_results, flushed, queue, running, done>>
      ]_vars

AbortOnQueryFailureWitness ==
    /\ QueryFailed
    /\ "errors" \in responses[Len(responses)].keys
    /\ pc = "failed"
    /\ Len(flushed) = 2
    /\ Len(requests) = 3

\* C5: when the run has stopped on a failed query or a crash after the flush
\* of page N, the store holds what it held before the run followed by the
\* rows of pages 1..N as they were flushed, one row for each link of each of
\* these pages.
StoppedKeepsFlushedPages ==
    (pc \in {"failed", "crashed"} /\ Len(flushed) >= 1) =>
        /\ StoreHoldsFlushed
        /\ \A k \in 1..Len(flushed) : BatchComplete(k)

StoppedKeepsFlushedPagesWitness ==
    /\ pc = "crashed"
    /\ server = "three"
    /\ Len(flushed) = 2
    /\ Len(yielded) = 3
    /\ BagCardinality(probes) = 4
    /\ Len(store.lines) = Len(BaseLines) + 2

\* C6: a unit whose future raises gets a row with media_type "unknown"; only a
\* failed query ends the run in failure; and a page is left only when each of
\* its links has its row, the main thread going on to the next page.
UnitFailureContained ==
    [][/\ \A f \in BagToSet(done) :
            (pc' # "crashed" /\ f.result.raised /\ done' = done (-) SetToBag({f}))
                => page_results' = Append(page_results, Row(f.task, s_unknown))
       /\ pc' = "failed" => QueryFailed'
       /\ Len(flushed') > Len(flushed) =>
            /\ BagOf(RowTasks(page_results)) = BagOf(links_to_check)
            /\ flushed' = Append(flushed, page_results)
            /\ pc' = "next"]_vars

UnitFailureContainedWitness ==
    /\ pc = "done"
    /\ server = "three"
    /\ faults = 1
    /\ Len(flushed) = 3
    /\ \E i \in 1..Len(flushed[1]) : flushed[1][i].media_type = s_unknown
    /\ \E i \in 1..Len(flushed[1]) : flushed[1][i].media_type = s_image
    /\ Len(flushed[3]) = 3

\* C7: for every input string and every outcome of the probe, get_media_type
\* returns, and what it returns is image, audio, video, text, invalid, unknown
\* or the primary type token of a content type; one call gives one result.
DeclaredTypes == {HeadersGet(o.headers, "Content-Type", <<>>) : o \in Outcomes} \ {<<>>}

MediaVocabulary ==
    {s_image, s_audio, s_video, s_text, s_invalid, s_unknown}
    \cup {SplitFirst(ct, "/") : ct \in DeclaredTypes}
    \cup {SplitFirst(types_map[e], "/") : e \in DOMAIN types_map}

NeverRaises ==
    /\ \A f \in BagToSet(done) :
         /\ ~f.result.raised
         /\ f.result.value \in MediaVocabulary
         /\ f.result.value # None
    /\ Len(queue) + BagCardinality(running) + BagCardinality(done) = 1

NeverRaisesWitness ==
    \E f \in BagToSet(done) :
      /\ f.outcome = Raises("Exception")
      /\ f.task.link = u_bracket
      /\ f.result = Returned(s_unknown)

\* C8 as stated: whenever the probe raises, the result is the extension
\* table's token for a url with a known extension and "unknown" otherwise.
FallbackOnAnyProbeError ==
    \A f \in BagToSet(done) :
      ProbeFailed(f) =>
        f.result = Returned(IF HasKnownExtension(f.url) THEN TableToken(f.url) ELSE s_unknown)

\* C8 as amended: whenever the probe raises anything but InvalidURL, the
\* result is the extension table's token for a url that urlparse accepts and
\* whose path ends in a known extension, and "unknown" otherwise; when the
\* probe raises InvalidURL the result is "invalid".
FallbackOnProbeError ==
    \A f \in BagToSet(done) :
      /\ (ProbeFailed(f) /\ f.outcome.kind # "InvalidURL") =>
            f.result = Returned(IF ~urlparse_raises(f.url) /\ HasKnownExtension(f.url)
                                THEN TableToken(f.url)
                                ELSE s_unknown)
      /\ f.outcome.kind = "InvalidURL" => f.result = Returned(s_invalid)

FallbackOnProbeErrorWitness ==
    /\ \E f \in BagToSet(done) :
         /\ f.outcome = Raises("Timeout")
         /\ f.task.link = u_wrapped
         /\ f.url = u_png
         /\ f.result = Returned(s_image)

\* C9: a link that contains "localhost" or "127.0.0.1", or that once
\* sanitised starts with neither http:// nor https://, is answered "invalid"
\* and no probe is ever issued for it.
IsLoopbackOrSchemeless(link) ==
    \/ Contains(link, s_localhost)
    \/ Contains(link, s_loopback)
    \/ ~(StartsWith(sanitize(link), s_http) \/ StartsWith(sanitize(link), s_https))

RejectedWithoutProbe ==
    /\ \A c \in BagToSet(running) : IsLoopbackOrSchemeless(c.task.link) => c.phase = "called"
    /\ \A f \in BagToSet(done) :
         IsLoopbackOrSchemeless(f.task.link) =>
            /\ f.result = Returned(s_invalid)
            /\ ~f.probed
            /\ f.outcome = NoProbe
    /\ \A u \in BagToSet(probes) : ~IsLoopbackOrSchemeless(u)

RejectedWithoutProbeWitness ==
    /\ probes = EmptyBag
    /\ \E f \in BagToSet(done) :
         /\ f.task.link = u_local_png
         /\ f.result = Returned(s_invalid)

\* C10 as stated: the isGithub flag of a row is true exactly when the host of
\* the row's link is github.com.
IsGithubIffHost ==
    \A i \in 1..Len(store.lines) :
      ~store.lines[i].header =>
        (store.lines[i].isGithub <=> Hostname(store.lines[i].link) = s_github_host)

HeaderCount(lines) == Cardinality({i \in 1..Len(lines) : lines[i].header})

\* C11: the header row is written only when the file does not exist, as the
\* first line of the new file; no other write adds a header, a file that
\* exists keeps its header rows as they are, and the store never holds more
\* than one header row.
SingleHeader ==
    [][/\ HeaderCount(store'.lines) <= 1
       /\ HeaderCount(store'.lines) > HeaderCount(store.lines) =>
            ~store.exists /\ store'.lines = <<csv_header>>
       /\ store.exists =>
            /\ HeaderCount(store'.lines) = HeaderCount(store.lines)
            /\ Len(store'.lines) >= Len(store.lines)]_vars

SingleHeaderWitness ==
    /\ pc = "done"
    /\ server = "three"
    /\ store0.exists
    /\ store0.lines # <<>>
    /\ HeaderCount(store.lines) = 1
    /\ store.lines[1].header
    /\ Len(store.lines) = Len(store0.lines) + 5

\* The link occurrences of a record, of a page and of the whole repository:
\* one for each position of the list extracted from a body that is present.
OccurrencesOfRecord(pr) ==
    LET links == IF pr.body = None THEN <<>> ELSE extract_visible_http_links(pr.body)
    IN  [i \in 1..Len(links) |->
           [pr_link |-> pr_link_of(Repo, pr.number), pr_title |-> pr.title, link |-> links[i]]]

OccurrencesOfPage(nodes) ==
    Flatten([j \in 1..Len(nodes) |-> OccurrencesOfRecord(nodes[j])])

OccurrencesOfServer ==
    [srv \in Servers |->
       BagOf(Flatten([k \in 1..Len(Pages(srv)) |-> OccurrencesOfPage(Pages(srv)[k].nodes)]))]

\* The bag of the link occurrences of the repository the run queries.
Occurrences == OccurrencesOfServer[server]

\* C12: no link occurrence is classified more often than it occurs, and when
\* the run has completed the rows it persisted correspond one to one to the
\* (record, raw URL) occurrences extracted from the fetched bodies: each
\* occurrence was classified exactly once and has exactly one row, which
\* carries the pr_link and pr_title of the record it was extracted from.
RowPerOccurrence ==
    /\ calls \sqsubseteq Occurrences
    /\ BagOf(RowTasks(Flatten(appends))) \sqsubseteq Occurrences
    /\ pc = "done" =>
         /\ calls = Occurrences
         /\ BagOf(RowTasks(Flatten(appends))) = Occurrences
         /\ store.lines = BaseLines \o csv_lines(Flatten(appends))

RowPerOccurrenceWitness ==
    /\ pc = "done"
    /\ server = "three"
    /\ faults = 1
    /\ Len(Flatten(appends)) = 5
    /\ \E t \in BagToSet(calls) : calls[t] = 2
    /\ \E i, j \in 1..Len(appends[2]) : i # j /\ appends[2][i] = appends[2][j]

\* The characters a link may not hold: whitespace and the delimiters.
Forbidden == {" ", "\t", "\n", "<", ">", "(", ")", "[", "]", Backquote}

\* The end of the run of allowed characters that holds position i.
RunEnd(s, i) == Min({j \in i..(Len(s) + 1) : j = Len(s) + 1 \/ s[j] \in Forbidden}) - 1

\* A scheme stands at position i with at least one allowed character after it.
SchemeWithTail(s, i) ==
    \/ MatchAt(s, i, s_http) /\ i + Len(s_http) <= RunEnd(s, i)
    \/ MatchAt(s, i, s_https) /\ i + Len(s_https) <= RunEnd(s, i)

\* Where the links of a text begin: in each run of allowed characters, at the
\* first scheme with a tail; the link reaches to the end of its run.
LinkBegins(s) ==
    {i \in 1..Len(s) :
       /\ SchemeWithTail(s, i)
       /\ \A j \in 1..(i - 1) : RunEnd(s, j) = RunEnd(s, i) /\ s[j] \notin Forbidden
                                   => ~SchemeWithTail(s, j)}

\* The links of a text in the order of their positions, repeated ones kept.
LinksInOrder(s) ==
    LET begins == LinkBegins(s)
        nth(n) == CHOOSE b \in begins : Cardinality({c \in begins : c < b}) = n - 1
    IN  [n \in 1..Cardinality(begins) |-> SubSeq(s, nth(n), RunEnd(s, nth(n)))]

\* C13: for every text, each link extract_visible_http_links returns begins
\* with http:// or https:// and holds no whitespace and none of the delimiters
\* < > ( ) [ ] and backquote, and the links are the ones of the text in the
\* order of their positions, a repeated URL once for each occurrence.
ExtractedLinksWellFormed ==
    pc = "pool" =>
      LET text == pr_page[1].body
          links == [i \in 1..Len(links_to_check) |-> links_to_check[i].link]
      IN  /\ \A i \in 1..Len(links) :
                /\ StartsWith(links[i], s_http) \/ StartsWith(links[i], s_https)
                /\ Range(links[i]) \cap Forbidden = {}
          /\ text # None => links = LinksInOrder(text)

ExtractedLinksWellFormedWitness ==
    /\ pc = "pool"
    /\ pr_page[1].body = u_mp4 \o <<")">> \o u_mp4
    /\ Len(links_to_check) = 2
    /\ links_to_check[1].link = u_mp4
    /\ links_to_check[2].link = u_mp4

\* The body of a record is absent or the empty string.
NoBody(pr) == pr.body = None \/ pr.body = <<>>

\* The pr_link of the records of a repository that have no body.
NoBodyLinksOfServer ==
    [srv \in Servers |->
       {pr_link_of(Repo, Pages(srv)[k].nodes[j].number) :
          <<k, j>> \in {kj \in (1..Len(Pages(srv))) \X (1..2) :
                          /\ kj[2] <= Len(Pages(srv)[kj[1]].nodes)
                          /\ NoBody(Pages(srv)[kj[1]].nodes[kj[2]])}}]

NoBodyLinks == NoBodyLinksOfServer[server]

\* C14: a record whose body is absent or empty causes no error (the run fails
\* only on a failed query and a completed run has processed every page),
\* contributes no link to its page's batch and no row, and a page whose
\* records all lack a body has an empty batch.
EmptyBodyNoError ==
    /\ pc = "failed" => QueryFailed
    /\ pc = "done" => Len(flushed) = Len(Pages(server))
    /\ \A i \in 1..Len(links_to_check) : links_to_check[i].pr_link \notin NoBodyLinks
    /\ \A r \in Range(page_results) \cup Range(Flatten(appends)) : r.pr_link \notin NoBodyLinks
    /\ pc = "pool" /\ (\A j \in 1..Len(pr_page) : NoBody(pr_page[j])) => links_to_check = <<>>

EmptyBodyNoErrorWitness ==
    /\ pc = "done"
    /\ server = "three"
    /\ NoBodyLinks = {pr_link_of(Repo, 2), pr_link_of(Repo, 3)}
    /\ Len(flushed) = 3
    /\ Len(flushed[1]) = 2
    /\ flushed[2] = <<>>
    /\ Len(appends) = 2

\* The rows the run has persisted, in the order of the file.
RunRows == Flatten(appends)

\* C15 (as stated): the run over the one record with the two links yields
\* exactly two rows, the second row has isGithub = true and the first row has
\* media_type "image".
E2ERowsInTextOrder ==
    pc = "done" =>
      /\ Len(RunRows) = 2
      /\ RunRows[2].isGithub
      /\ RunRows[1].media_type = s_image

\* C15 (amended): the run yields exactly two rows, in the order in which the
\* two units completed: the row of https://example.com/img.png has media_type
\* "image" and the row of https://github.com/x/y has isGithub = true.
E2ERowsInCompletionOrder ==
    pc = "done" =>
      /\ Len(RunRows) = 2
      /\ store.lines = BaseLines \o csv_lines(RunRows)
      /\ \E i, j \in 1..2 :
           /\ i # j
           /\ RunRows[i].link = u_img
           /\ RunRows[i].media_type = s_image
           /\ ~RunRows[i].isGithub
           /\ RunRows[j].link = u_gh
           /\ RunRows[j].isGithub

E2ERowsInCompletionOrderWitness ==
    /\ pc = "done"
    /\ pr_page[1].body = b_e2e
    /\ Len(RunRows) = 2
    /\ RunRows[1].link = u_gh
    /\ RunRows[2].link = u_img
    /\ RunRows[2].media_type = s_image

\* Every unit the pool holds (queued, running or finished and not yet
\* collected) is a unit of the batch of the current page.
PoolOfCurrentPage ==
    /\ \A i \in 1..Len(queue) : queue[i] \in Range(links_to_check)
    /\ \A c \in BagToSet(running) : c.task \in Range(links_to_check)
    /\ \A f \in BagToSet(done) : f.task \in Range(links_to_check)

\* C16: a page request, a write to the store and the end of a page's
\* iteration happen only when no unit is queued, running or uncollected and
\* every unit of the page has delivered its row; a new batch is set up only
\* when the pool is idle, and while its units are submitted the pool holds
\* units of that batch alone.
BarrierBetweenPages ==
    [][/\ (requests' # requests \/ store' # store \/ flushed' # flushed) =>
            /\ PoolIdle
            /\ pc = "pool" => Len(page_results) = Len(links_to_check)
       /\ pc = "extract" => PoolIdle
       /\ submitted' > submitted => PoolOfCurrentPage /\ PoolOfCurrentPage']_vars

BarrierBetweenPagesWitness ==
    /\ server = "three"
    /\ pc = "pool"
    /\ Len(requests) = 3
    /\ Len(flushed) = 2
    /\ Len(appends) = 1
    /\ submitted = 2
    /\ BagCardinality(running) = 2

\* The Content-Type a successful probe declared, <<>> when it declared none.
Declared(outcome) ==
    IF \E h \in outcome.headers : h[1] = "Content-Type"
    THEN (CHOOSE h \in outcome.headers : h[1] = "Content-Type")[2]
    ELSE <<>>

\* What stands before the first "/" of a content type (all of it without "/").
PrimaryToken(ct) ==
    LET slashes == {i \in 1..Len(ct) : ct[i] = "/"}
    IN  IF slashes = {} THEN ct ELSE SubSeq(ct, 1, Min(slashes) - 1)

\* C17: when the probe succeeds with a non-empty Content-Type, the result is
\* image if it contains "image"; else audio if it contains "audio"; else video
\* if it contains "video"; else text if it contains "text" or "html"; else the
\* primary type token before the "/". When the probe succeeds without a
\* Content-Type the result is unknown.
ContentTypePrecedence ==
    \A f \in BagToSet(done) :
      f.outcome.kind = "ok" =>
        LET ct == Declared(f.outcome)
            has(word) == Contains(ct, word)
            v == f.result.value
        IN  /\ ~f.result.raised
            /\ ct = <<>> => v = s_unknown
            /\ ct # <<>> =>
                 /\ has(s_image) => v = s_image
                 /\ ~has(s_image) /\ has(s_audio) => v = s_audio
                 /\ ~has(s_image) /\ ~has(s_audio) /\ has(s_video) => v = s_video
                 /\ ~has(s_image) /\ ~has(s_audio) /\ ~has(s_video)
                      /\ (has(s_text) \/ has(s_html)) => v = s_text
                 /\ ~has(s_image) /\ ~has(s_audio) /\ ~has(s_video)
                      /\ ~has(s_text) /\ ~has(s_html) => v = PrimaryToken(ct)

ContentTypePrecedenceWitness ==
    /\ \E f \in BagToSet(done) :
         /\ f.probed
         /\ f.outcome = Answer(ContentType(ct_text_image))
         /\ f.result = Returned(s_image)
         /\ f.task.link = u_noext

\* The bag of link occurrences of each page of a repository.
PageOccurrencesOfServer ==
    [srv \in Servers |->
       [k \in 1..Len(Pages(srv)) |-> BagOf(OccurrencesOfPage(Pages(srv)[k].nodes))]]

NonEmptyBatch(batch) == batch # <<>>

\* C18 (as stated): between pages and at the end of the run, every fetched
\* page has had its one append to the store.
AppendPerFetchedPage ==
    pc \in {"next", "done"} => Len(appends) = Len(yielded)

\* C18 (amended): the store is written once per page that has at least one
\* row and not at all for a page without rows, never per link: every append
\* happens when all units of the page have completed and been collected,
\* holds all the rows of the page (one per link occurrence of the page), and
\* the appends are, in order, the batches of the finished pages that have rows.
AppendPerNonEmptyPage ==
    [][/\ appends' # appends =>
            /\ pc = "pool"
            /\ PoolIdle
            /\ page_results # <<>>
            /\ Len(page_results) = Len(links_to_check)
            /\ BagOf(RowTasks(page_results)) = PageOccurrencesOfServer[server][Len(yielded)]
            /\ appends' = Append(appends, page_results)
            /\ flushed' = Append(flushed, page_results)
            /\ store'.lines = store.lines \o csv_lines(page_results)
       /\ store' # store => appends' # appends \/ pc = "start"
       /\ appends' = SelectSeq(flushed', NonEmptyBatch)
       /\ pc' \in {"next", "done"} => Len(flushed') = Len(yielded')]_vars

AppendPerNonEmptyPageWitness ==
    /\ pc = "done"
    /\ server = "three"
    /\ Len(yielded) = 3
    /\ flushed[2] = <<>>
    /\ Len(appends) = 2
    /\ appends[1] = flushed[1]
    /\ appends[2] = flushed[3]
    /\ Len(appends[2]) = 3

\* Every unit submitted for the page is queued, running, finished or already
\* collected: none has been cancelled or given up.
NoUnitAbandoned ==
    pc = "pool" =>
      Len(queue) + BagCardinality(running) + BagCardinality(done) + Len(page_results) = submitted

\* The run has ended normally with every page of the server fetched and flushed.
RunFinished ==
    /\ pc = "done"
    /\ PoolIdle
    /\ Len(yielded) = Len(Pages(server))
    /\ Len(flushed) = Len(Pages(server))
    /\ store.lines = BaseLines \o csv_lines(Flatten(flushed))

\* C19: when the server serves its pages without error and every unit gets
\* the answer or the exception of its probe, a run under fair scheduling
\* eventually ends with every page fetched and flushed, and on the way it
\* never gives up a unit it has submitted and never ends otherwise.
RunTerminates ==
    /\ [](NoUnitAbandoned /\ pc \notin {"failed", "crashed"})
    /\ <>[]RunFinished

RunTerminatesWitness ==
    /\ RunFinished
    /\ server = "three"
    /\ faults = 1
    /\ total_processed = 5
    /\ \E i \in 1..3 : flushed[3][i].link = u_http_gh /\ flushed[3][i].media_type = s_unknown

IsPrefix(s, t) == Len(s) <= Len(t) /\ SubSeq(t, 1, Len(s)) = s

\* The page of a repository that holds the record with a given number.
PageOfNumberOfServer ==
    [srv \in Servers |->
       [n \in UNION {Range(Numbers(Pages(srv)[k].nodes)) : k \in 1..Len(Pages(srv))} |->
          CHOOSE k \in 1..Len(Pages(srv)) : n \in Range(Numbers(Pages(srv)[k].nodes))]]

\* The page the row of a store line comes from; the number of the record is
\* the last part of the line's pr_link.
PageOfLine(line) == PageOfNumberOfServer[server][line.pr_link[4]]

\* The lines the run has appended to a store, after what it found or created.
RunLines(st) == SubSeq(st.lines, Len(BaseLines) + 1, Len(st.lines))

\* The rows of an earlier page stand before the rows of a later page.
InPageOrder(lines) ==
    \A i, j \in 1..Len(lines) : i < j => PageOfLine(lines[i]) <= PageOfLine(lines[j])

\* C20: the store only grows at its end: every step keeps the content it
\* finds as a prefix of the content it leaves, so what existed before the run
\* stays unchanged and no row is rewritten or removed; the rows the run has
\* appended are in page order, and the running total equals their number.
StoreAppendOnly ==
    [][/\ IsPrefix(store.lines, store'.lines)
       /\ store.exists => store'.exists
       /\ IsPrefix(store0.lines, store'.lines)
       /\ store'.exists =>
            /\ IsPrefix(BaseLines, store'.lines)
            /\ InPageOrder(RunLines(store'))
            /\ total_processed' = Len(RunLines(store'))]_vars

StoreAppendOnlyWitness ==
    /\ pc = "done"
    /\ server = "three"
    /\ store0.lines = <<csv_header, csv_line(OldRow)>>
    /\ SubSeq(store.lines, 1, 2) = store0.lines
    /\ total_processed = 5
    /\ Len(store.lines) = 7
    /\ PageOfLine(store.lines[4]) = 1
    /\ PageOfLine(store.lines[5]) = 3
====
